---------------------------- MODULE Spec2Model ----------------------------
(***************************************************************************)
(* The pattern-based code analyzer of CodeEvolveAI                         *)
(* (src/server/lib/codeAnalyzer.ts) and its geometric optimizer            *)
(* (lib/geometricOptimizer.ts).                                            *)
(*                                                                         *)
(* A source text is modelled as the sequence of its lines; every line is   *)
(* one of a fixed vocabulary of lines, named below by its literal text.    *)
(* The substring tests and regular expressions of the analyzer are         *)
(* modelled by what they do on this vocabulary: which lines contain which  *)
(* needle, which line sequences a pattern matches, and which lines its     *)
(* replacement puts in their place.                                        *)
(***************************************************************************)
EXTENDS Integers, Sequences, FiniteSets, TLC

VARIABLES
    request,    \* the arguments of the analyzeCode call
    result,     \* <<>> before the call returns, <<AnalysisResult>> after
    pc,         \* "idle" before the call, "done" after it has returned
    earlier,    \* the results earlier calls with this request returned
    geo,        \* a call of applyGeometricOptimization and the storage it reads
    loop,       \* a run of the flattened loop beside the nested loops
    srv         \* the storage and the route handlers or chat calls in flight

vars == <<request, result, pc, earlier, geo, loop, srv>>

---------------------------------------------------------------------------
(* Bounds of the model *)

\* longest source, in lines
MaxLen == 2
\* longest source handed to applyGeometricOptimization, in lines
MaxGeoLen == 3
\* largest bound of a loop
MaxLimit == 3
\* requests to POST /api/analyze in flight at once
NumRequests == 2
\* calls of saveAnalysisResult
MaxSaves == 3
\* Math.random() is sampled at k / RandomGrid, k < RandomGrid, and at 0.99
RandomGrid == 3

---------------------------------------------------------------------------
(* The vocabulary of lines *)

FibFunction ==
    "function fibonacci(n) { if (n<=0) return 0; if (n===1) return 1; return fibonacci(n-1)+fibonacci(n-2); }"
FibHead     == "function fibonacci(n) {"
FibReturn   == "return fibonacci(n - 1) + fibonacci(n - 2);"
MemoDecl    == "const memo = {};"
InnerAssign == "el.innerHTML = x;"
InnerRead   == "log(el.innerHTML);"
VarDecl     == "var i = 0;"
ResultsInit == "results = []"
PyFor       == "for i in range(n):"
PyAppend    == "results.append(i)"
NestedLoop ==
    "for (let i = 0; i < a.length; i++) { for (let j = 0; j < b.length; j++) { sum += a[i] * b[j]; } }"
NestedLoopAdjacent ==
    "for (let i = 0; i < a.length; i++) { for (let j = 0; j < b.length; j++) { sum += a[i] * b[j+1]; } }"
NestedLoopOther ==
    "for (let r = 0; r < rows; r++) { for (let c = 0; c < cols; c++) { visit(r, c); } }"

\* the lines a submitted source is made of
SourceLines ==
    {FibFunction, FibHead, FibReturn, MemoDecl, InnerAssign, InnerRead,
     VarDecl, ResultsInit, PyFor, PyAppend}

\* lines that only rewrites produce
TextAssign     == "el.textContent = x;"
ConstDecl      == "const i = 0;"
SnakeInnerAssign == "el.inner_h_t_m_l = x;"
SnakeInnerRead == "log(el.inner_h_t_m_l);"
SnakeTextAssign == "el.text_content = x;"
ConstIndex     == "const index = 0;"
PyComprehension == "results = [i for i in range(n)]"

\* the replacement text of applyMemoization, line by line
MemoTemplate ==
    << "function fibonacci(n, memo = {}) {",
       "  // Base cases",
       "  if (n <= 0) return 0;",
       "  if (n == 1) return 1;",
       "  ",
       "  // Check if we've already calculated this value",
       "  if (memo[n] !== undefined) return memo[n];",
       "  ",
       "  // Store result in memo object to avoid recalculation",
       "  memo[n] = fibonacci(n - 1, memo) + fibonacci(n - 2, memo);",
       "  return memo[n];" >>

\* the last line of the replacement when the matched return is followed, on
\* its line, by the closing brace of FibFunction
MemoReturnBrace == "  return memo[n]; }"

---------------------------------------------------------------------------
(* String.prototype.includes and RegExp tests, on the vocabulary *)

\* the lines whose text contains the needle
LinesContaining(needle) ==
    CASE needle = "fibonacci" ->
            {FibFunction, FibHead, FibReturn, MemoTemplate[1],
             MemoTemplate[10]}
      [] needle = "function fibonacci" ->
            {FibFunction, FibHead, MemoTemplate[1]}
      [] needle = "const fibonacci" -> {}
      [] needle = "memo" ->
            {MemoDecl, MemoTemplate[1], MemoTemplate[7], MemoTemplate[9],
             MemoTemplate[10], MemoTemplate[11], MemoReturnBrace}
      [] needle = "innerHTML" -> {InnerAssign, InnerRead}
      [] needle = "var " -> {VarDecl}
      [] needle = "for" ->
            {PyFor, PyComprehension, NestedLoop, NestedLoopAdjacent,
             NestedLoopOther}
      [] needle = "range" -> {PyFor, PyComprehension}
      [] needle = "append" -> {PyAppend}

\* code.includes(needle)
Includes(code, needle) ==
    \E i \in 1..Len(code) : code[i] \in LinesContaining(needle)

\* the identifiers of a line matched by /\b[a-z][a-zA-Z0-9]*[A-Z][a-zA-Z0-9]*\b/g
CamelCaseIdents(line) ==
    CASE line \in {InnerAssign, InnerRead} -> {"innerHTML"}
      [] line = TextAssign -> {"textContent"}
      [] OTHER -> {}

\* code.match(/[a-z][A-Z]/)
MatchesMixedCase(code) ==
    \E i \in 1..Len(code) : CamelCaseIdents(code[i]) # {}

\* code.split("\n").length
LineCount(code) == Len(code)

---------------------------------------------------------------------------
(* The rewrites *)

\* line i holds a match of /function\s+fibonacci\s*\(\s*n\s*\)\s*{/
FibHeadAt(code, i) == code[i] \in {FibHead, FibFunction}

\* line i holds a match of
\* /return\s+fibonacci\s*\(\s*n\s*-\s*1\s*\)\s*\+\s*fibonacci\s*\(\s*n\s*-\s*2\s*\)\s*;?/
\* (in FibFunction it stands after the head, on the same line)
FibReturnAt(code, i) == code[i] \in {FibReturn, FibFunction}

\* the first line at or after i on which the pattern, begun at the head on
\* line i, can end: [\s\S]*? is lazy and takes the first recursive return
FirstReturnFrom(code, i) ==
    LET ends == {j \in i..Len(code) : FibReturnAt(code, j)}
    IN  IF ends = {} THEN 0
        ELSE CHOOSE j \in ends : \A k \in ends : j <= k

\* the lines at which a match of the pattern of applyMemoization can start
MemoMatchStarts(code) ==
    {i \in 1..Len(code) :
        FibHeadAt(code, i) /\ FirstReturnFrom(code, i) # 0}

\* the replacement, followed by what the line of the matched return holds
\* after the match
MemoReplacement(lastLine) ==
    IF lastLine = FibFunction
    THEN [MemoTemplate EXCEPT ![Len(MemoTemplate)] = MemoReturnBrace]
    ELSE MemoTemplate

applyMemoization(code) ==
    IF Includes(code, "function fibonacci") \/ Includes(code, "const fibonacci")
    THEN IF MemoMatchStarts(code) = {}
         THEN code
         ELSE \* no g flag: the leftmost match only
              LET start == CHOOSE i \in MemoMatchStarts(code) :
                              \A k \in MemoMatchStarts(code) : i <= k
                  stop  == FirstReturnFrom(code, start)
              IN  SubSeq(code, 1, start - 1)
                      \o MemoReplacement(code[stop])
                      \o SubSeq(code, stop + 1, Len(code))
    ELSE code

\* the line holds a match of /\.innerHTML\s*=/
InnerHtmlAssigned(line) == line = InnerAssign

\* the line with every /\.innerHTML\s*=/ replaced by ".textContent ="
XssFixedLine(line) == IF InnerHtmlAssigned(line) THEN TextAssign ELSE line

\* a slip: the pattern without its g flag replaces the first match only
fixXssFirstOnly(code) ==
    [i \in 1..Len(code) |->
        IF \A k \in 1..(i - 1) : ~InnerHtmlAssigned(code[k])
        THEN XssFixedLine(code[i])
        ELSE code[i]]

fixXssVulnerability(code) ==
    [i \in 1..Len(code) |-> XssFixedLine(code[i])]

\* the line with every /var\s+([a-zA-Z0-9_]+)/ replaced by "const $1"
VarToConstLine(line) == IF line = VarDecl THEN ConstDecl ELSE line

\* the line with every whole-word occurrence of the identifiers replaced by
\* their snake_case form
SnakeCasedLine(line, idents) ==
    IF CamelCaseIdents(line) \cap idents = {}
    THEN line
    ELSE CASE line = InnerAssign -> SnakeInnerAssign
           [] line = InnerRead -> SnakeInnerRead
           [] line = TextAssign -> SnakeTextAssign

improveReadability(code) ==
    LET camelCaseVars ==
            UNION {CamelCaseIdents(code[i]) : i \in 1..Len(code)}
    IN  [i \in 1..Len(code) |->
            SnakeCasedLine(VarToConstLine(code[i]), camelCaseVars)]

\* the three-line pattern of optimizePythonLoop starts at line i
PythonLoopAt(code, i) ==
    /\ i + 2 <= Len(code)
    /\ code[i] = ResultsInit
    /\ code[i + 1] = PyFor
    /\ code[i + 2] = PyAppend

RECURSIVE ReplacePythonLoops(_, _)
ReplacePythonLoops(code, i) ==
    IF i > Len(code) THEN << >>
    ELSE IF PythonLoopAt(code, i)
         THEN <<PyComprehension>> \o ReplacePythonLoops(code, i + 3)
         ELSE <<code[i]>> \o ReplacePythonLoops(code, i + 1)

optimizePythonLoop(code) == ReplacePythonLoops(code, 1)

\* the line after the replacements table: only "var i = " occurs in the
\* vocabulary
BetterNamedLine(line) == IF line = VarDecl THEN ConstIndex ELSE line

suggestBetterVariableNames(code) ==
    [i \in 1..Len(code) |-> BetterNamedLine(code[i])]

---------------------------------------------------------------------------
(* analyzeCode *)

\* Math.random() as a rational <<numerator, denominator>> in [0, 1)
MathRandom ==
    {<<k, RandomGrid>> : k \in 0..(RandomGrid - 1)} \cup {<<99, 100>>}

\* Math.floor(u * n)
FloorTimes(u, n) == (u[1] * n) \div u[2]

\* Math.floor(Math.random() * 20) + 70
PlaceholderScore(u) == FloorTimes(u, 20) + 70

\* a slip: the result object kept at module level, so that a call starts
\* from the insights the call before it left
InitialResultShared(code, filename, language) ==
    [originalCode |-> code,
     optimizedCode |-> code,
     filename |-> filename,
     language |-> language,
     metrics |-> [performanceScore |-> 0,
                  securityScore |-> 0,
                  readabilityScore |-> 0,
                  improvementPercentage |-> 0,
                  optimizedLines |-> << >>],
     insights |-> IF earlier = << >> THEN << >>
                  ELSE earlier[Len(earlier)].insights,
     domains |-> << >>]

\* the result object before any rule has been looked at
InitialResult(code, filename, language) ==
    [originalCode |-> code,
     optimizedCode |-> code,
     filename |-> filename,
     language |-> language,
     metrics |-> [performanceScore |-> 0,
                  securityScore |-> 0,
                  readabilityScore |-> 0,
                  improvementPercentage |-> 0,
                  optimizedLines |-> << >>],
     insights |-> << >>,
     domains |-> << >>]

FibonacciInsight ==
    [type |-> "performance",
     description |->
        "Added memoization to store previously calculated Fibonacci values",
     appliedTechnique |-> "Dynamic Programming",
     impact |-> "Reduces time complexity from O(2^n) to O(n), making it approximately 1000x faster for large inputs"]

XssInsight ==
    [type |-> "security",
     description |->
        "Fixed potential XSS vulnerability by replacing innerHTML with textContent",
     appliedTechnique |-> "Input Sanitization",
     impact |-> "Prevents cross-site scripting attacks that could compromise user data"]

ReadabilityInsight ==
    [type |-> "readability",
     description |->
        "Improved variable naming and code structure for better readability",
     appliedTechnique |-> "Code Style Standardization",
     impact |-> "Makes code easier to understand and maintain"]

PythonInsight ==
    [type |-> "performance",
     description |->
        "Replaced inefficient list building with list comprehension",
     appliedTechnique |-> "Pythonic Patterns",
     impact |-> "Improves performance by reducing interpreter overhead"]

FallbackInsight ==
    [type |-> "readability",
     description |-> "Suggested more descriptive variable names",
     appliedTechnique |-> "Naming Conventions",
     impact |-> "Improves code readability and maintainability"]

\* the conditions of the four pattern rules
FibonacciDetected(code, optimizationTypes) ==
    /\ Includes(code, "fibonacci")
    /\ ~Includes(code, "memo")
    /\ "performance" \in optimizationTypes

XssDetected(code, optimizationTypes) ==
    /\ Includes(code, "innerHTML")
    /\ "security" \in optimizationTypes

ReadabilityDetected(code, optimizationTypes) ==
    /\ Includes(code, "var ") \/ MatchesMixedCase(code)
    /\ "readability" \in optimizationTypes

\* a slip: the Python rule not asking whether performance was requested
PythonLoopDetectedUnasked(code, optimizationTypes) ==
    /\ Includes(code, "for")
    /\ Includes(code, "range")
    /\ Includes(code, "append")

PythonLoopDetected(code, optimizationTypes) ==
    /\ Includes(code, "for")
    /\ Includes(code, "range")
    /\ Includes(code, "append")
    /\ "performance" \in optimizationTypes

\* the blocks of analyzeCode, each taking the result object as the blocks
\* before it left it
FibonacciRule(r, code, optimizationTypes) ==
    IF FibonacciDetected(code, optimizationTypes)
    THEN [r EXCEPT
            !.optimizedCode = applyMemoization(code),
            !.metrics.optimizedLines = <<3, 4, 5, 6, 7>>,
            !.metrics.performanceScore = 87,
            !.metrics.improvementPercentage = 95,
            !.insights = Append(@, FibonacciInsight),
            !.domains = Append(@, [name |-> "Mathematics",
                                   algorithms |-> <<"Dynamic Programming">>])]
    ELSE r

\* a slip: the security block chained to the performance block by else-if
XssRuleElseIf(r, code, optimizationTypes) ==
    IF XssDetected(code, optimizationTypes) /\ Len(r.insights) = 0
    THEN [r EXCEPT
            !.optimizedCode = fixXssVulnerability(code),
            !.metrics.securityScore = 92,
            !.metrics.improvementPercentage = 25,
            !.insights = Append(@, XssInsight),
            !.domains = Append(@, [name |-> "Computer Science",
                                   algorithms |-> <<"Security Hardening">>])]
    ELSE r

\* a slip: the largest improvement of the fired rules kept
XssRuleKeepingMax(r, code, optimizationTypes) ==
    IF XssDetected(code, optimizationTypes)
    THEN [r EXCEPT
            !.optimizedCode = fixXssVulnerability(code),
            !.metrics.securityScore = 92,
            !.metrics.improvementPercentage = IF @ > 25 THEN @ ELSE 25,
            !.insights = Append(@, XssInsight),
            !.domains = Append(@, [name |-> "Computer Science",
                                   algorithms |-> <<"Security Hardening">>])]
    ELSE r

XssRule(r, code, optimizationTypes) ==
    IF XssDetected(code, optimizationTypes)
    THEN [r EXCEPT
            !.optimizedCode = fixXssVulnerability(code),
            !.metrics.securityScore = 92,
            !.metrics.improvementPercentage = 25,
            !.insights = Append(@, XssInsight),
            !.domains = Append(@, [name |-> "Computer Science",
                                   algorithms |-> <<"Security Hardening">>])]
    ELSE r

\* a slip: the improvement of the rule added to that of the rules before it
ReadabilityRuleAdding(r, code, optimizationTypes) ==
    IF ReadabilityDetected(code, optimizationTypes)
    THEN [r EXCEPT
            !.optimizedCode = improveReadability(code),
            !.metrics.readabilityScore = 78,
            !.metrics.improvementPercentage = @ + 30,
            !.insights = Append(@, ReadabilityInsight)]
    ELSE r

ReadabilityRule(r, code, optimizationTypes) ==
    IF ReadabilityDetected(code, optimizationTypes)
    THEN [r EXCEPT
            !.optimizedCode = improveReadability(code),
            !.metrics.readabilityScore = 78,
            !.metrics.improvementPercentage = 30,
            !.insights = Append(@, ReadabilityInsight)]
    ELSE r

PythonLoopRule(r, code, optimizationTypes) ==
    IF PythonLoopDetected(code, optimizationTypes)
    THEN [r EXCEPT
            !.optimizedCode = optimizePythonLoop(code),
            !.metrics.performanceScore = 85,
            !.metrics.improvementPercentage = 40,
            !.insights = Append(@, PythonInsight)]
    ELSE r

\* a slip: the Python rules taken for every language that is not
\* JavaScript/TypeScript
PatternRulesElsePython(r, code, language, optimizationTypes) ==
    IF language = "javascript" \/ language = "typescript"
    THEN ReadabilityRule(
            XssRule(FibonacciRule(r, code, optimizationTypes),
                    code, optimizationTypes),
            code, optimizationTypes)
    ELSE PythonLoopRule(r, code, optimizationTypes)

\* "Check for common patterns to optimize": the branch on the language
PatternRules(r, code, language, optimizationTypes) ==
    IF language = "javascript" \/ language = "typescript"
    THEN ReadabilityRule(
            XssRule(FibonacciRule(r, code, optimizationTypes),
                    code, optimizationTypes),
            code, optimizationTypes)
    ELSE IF language = "python"
         THEN PythonLoopRule(r, code, optimizationTypes)
         ELSE r

\* "If no specific optimizations were found, provide general feedback"
\* a slip: the fallback taken whenever no readability rule has fired
FallbackRuleOnReadability(r, code) ==
    IF r.metrics.readabilityScore = 0
    THEN [r EXCEPT
            !.optimizedCode = suggestBetterVariableNames(code),
            !.metrics.readabilityScore = 75,
            !.metrics.improvementPercentage = 15,
            !.insights = Append(@, FallbackInsight)]
    ELSE r

FallbackRule(r, code) ==
    IF Len(r.insights) = 0
    THEN [r EXCEPT
            !.optimizedCode = suggestBetterVariableNames(code),
            !.metrics.readabilityScore = 75,
            !.metrics.improvementPercentage = 15,
            !.insights = Append(@, FallbackInsight)]
    ELSE r

\* a slip: the placeholder assigned without the test for 0
DefaultScoreAlways(score, u) == PlaceholderScore(u)

\* one "if (score === 0) score = Math.floor(Math.random() * 20) + 70"
DefaultScore(score, u) == IF score = 0 THEN PlaceholderScore(u) ELSE score

\* a slip: the readability axis forgotten
DefaultScoresTwoAxes(r, random) ==
    [r EXCEPT
        !.metrics.performanceScore = DefaultScore(@, random[1]),
        !.metrics.securityScore = DefaultScore(@, random[2])]

\* "Set default scores if not already set"; random is the three values
\* Math.random() has in store for the performance, security and readability axes
DefaultScores(r, random) ==
    [r EXCEPT
        !.metrics.performanceScore = DefaultScore(@, random[1]),
        !.metrics.securityScore = DefaultScore(@, random[2]),
        !.metrics.readabilityScore = DefaultScore(@, random[3])]

\* a slip: the filter taken into the scoring, the security rule (domain
\* "Computer Science") left out when the filter does not name its domain
analyzeCodeFilteringRules(code, filename, language, optimizationTypes, applicableDomains, random) ==
    LET types == IF applicableDomains # {"<absent>"}
                        /\ "Computer Science" \notin applicableDomains
                 THEN optimizationTypes \ {"security"}
                 ELSE optimizationTypes
    IN  DefaultScores(
            FallbackRule(
                PatternRules(InitialResult(code, filename, language),
                             code, language, types),
                code),
            random)

analyzeCode(code, filename, language, optimizationTypes, applicableDomains, random) ==
    DefaultScores(
        FallbackRule(
            PatternRules(InitialResult(code, filename, language),
                         code, language, optimizationTypes),
            code),
        random)

---------------------------------------------------------------------------
(* The requests and the call *)

Languages == {"javascript", "typescript", "python", "ruby"}

OptimizationTypes == {"performance", "security", "readability"}

\* applicableDomains is optional: NoFilter stands for the absent argument
NoFilter == {"<absent>"}
DomainFilters == {NoFilter, {"Mathematics"}}

RECURSIVE SeqsUpTo(_, _)
SeqsUpTo(S, n) ==
    IF n = 0 THEN {<< >>}
    ELSE LET shorter == SeqsUpTo(S, n - 1)
         IN  shorter \cup {Append(c, l) : c \in shorter, l \in S}

\* the sources: one to MaxLen lines (the request schema refuses empty code)
Sources == SeqsUpTo(SourceLines, MaxLen) \ {<< >>}

Requests ==
    [code : Sources,
     filename : {"main.src"},
     language : Languages,
     optimizationTypes : SUBSET OptimizationTypes,
     applicableDomains : DomainFilters]

\* what Math.random() returns to one call of analyzeCode: a value for every
\* axis whose score the rules left at 0, nothing (<<0, 1>>) for the others
RandomDraws(code, language, optimizationTypes) ==
    LET r == FallbackRule(
                PatternRules(InitialResult(code, "", language),
                             code, language, optimizationTypes),
                code)
        Drawn(score) == IF score = 0 THEN MathRandom ELSE {<<0, 1>>}
    IN  Drawn(r.metrics.performanceScore)
            \X Drawn(r.metrics.securityScore)
            \X Drawn(r.metrics.readabilityScore)

\* no call of applyGeometricOptimization is under way
GeoOff ==
    [code |-> << >>, language |-> "", storedDomains |-> {},
     result |-> << >>, pc |-> "off"]

\* no server is running
ServerOff == [pc |-> "off"]

\* no loop is running
LoopOff ==
    [outerLimit |-> 0, innerLimit |-> 0, idx |-> 0, flatVisited |-> << >>,
     i |-> 0, j |-> 0, nestedVisited |-> << >>, pc |-> "off"]

Init ==
    /\ request \in Requests
    /\ result = << >>
    /\ pc = "idle"
    /\ earlier = << >>
    /\ geo = GeoOff
    /\ loop = LoopOff
    /\ srv = ServerOff

\* the call analyzeCode(code, filename, language, optimizationTypes,
\* applicableDomains), from entry to return
Analyze ==
    /\ pc = "idle"
    /\ \E random \in RandomDraws(request.code, request.language,
                                 request.optimizationTypes) :
          result' = << analyzeCode(request.code, request.filename,
                                   request.language, request.optimizationTypes,
                                   request.applicableDomains, random) >>
    /\ pc' = "done"
    /\ UNCHANGED <<request, earlier, geo, loop, srv>>

Next == Analyze

Spec == Init /\ [][Next]_vars

---------------------------------------------------------------------------
(* The same call made again *)

\* sources of one line, the nested loop among them
RepeatSources == {<<l>> : l \in SourceLines \cup {NestedLoop}}

RepeatRequests ==
    [code : RepeatSources,
     filename : {"main.src"},
     language : Languages,
     optimizationTypes : SUBSET OptimizationTypes,
     applicableDomains : {NoFilter}]

InitRepeat ==
    /\ request \in RepeatRequests
    /\ result = << >>
    /\ pc = "idle"
    /\ earlier = << >>
    /\ geo = GeoOff
    /\ loop = LoopOff
    /\ srv = ServerOff

\* the caller keeps the result and makes the call a second time
Again ==
    /\ pc = "done"
    /\ earlier = << >>
    /\ earlier' = Append(earlier, result[1])
    /\ result' = << >>
    /\ pc' = "idle"
    /\ UNCHANGED <<request, geo, loop, srv>>

NextRepeat == Analyze \/ Again

SpecRepeat == InitRepeat /\ [][NextRepeat]_vars

---------------------------------------------------------------------------
(* applyGeometricOptimization (lib/geometricOptimizer.ts) *)

GeoPyInit   == "result = []"
GeoPyFor    == "for x in items:"
GeoPyIf     == "if x > 0:"
GeoPyAppend == "result.append(x)"

\* the lines a source handed to applyGeometricOptimization is made of
GeoSourceLines ==
    {FibFunction, FibHead, FibReturn, NestedLoop, NestedLoopAdjacent,
     NestedLoopOther, GeoPyInit, GeoPyFor, GeoPyIf, GeoPyAppend}

\* the replacement text of the Fibonacci rule, line by line
GeoMemoTemplate ==
    << "function fibonacci(n, memo = {}) {",
       "  // Base cases",
       "  if (n <= 0) return 0;",
       "  if (n === 1) return 1;",
       "  ",
       "  // Check if we've already calculated this value",
       "  if (memo[n] !== undefined) return memo[n];",
       "  ",
       "  // Apply homogenization principle from cohomology",
       "  // Store result in memo object to avoid recalculation",
       "  memo[n] = fibonacci(n - 1, memo) + fibonacci(n - 2, memo);",
       "  return memo[n];" >>

\* the single loop over the product of the two bounds
FlattenedHead ==
    "for (let idx = 0; idx < a.length * b.length; idx++) {"

\* what the callback of optimizeNestedLoops returns for NestedLoop: outerLimit
\* is "a.length", innerLimit "b.length", innerCode " sum += a[i] * b[j]; "
FlattenedLoop ==
    << "// Optimized using dimensional reduction inspired by sheaf cohomology",
       "// Original pattern had O(n2) complexity, reduced to O(n)",
       FlattenedHead,
       "  const i = Math.floor(idx / b.length);",
       "  const j = idx % b.length; sum += a[i] * b[j]; ",
       "}" >>

\* the replacement text of optimizePythonComprehensions
GeoPyComprehension ==
    << "# Optimized using algebraic variety principles for efficient filtering",
       "result = [x for x in items if x > 0]" >>

\* the source lines whose text contains the needle
GeoLinesContaining(needle) ==
    CASE needle = "for" ->
            {NestedLoop, NestedLoopAdjacent, NestedLoopOther, GeoPyFor}
      [] needle = "if" -> {FibFunction, GeoPyIf}
      [] needle = "[" -> {NestedLoop, NestedLoopAdjacent, GeoPyInit}
      [] needle = "]" -> {NestedLoop, NestedLoopAdjacent, GeoPyInit}

GeoIncludes(code, needle) ==
    \E i \in 1..Len(code) : code[i] \in GeoLinesContaining(needle)

\* fibonacciRegex.test(code): the pattern is that of applyMemoization
fibonacciRegexTest(code) == MemoMatchStarts(code) # {}

\* code.replace(fibonacciRegex, ...): the leftmost match replaced
GeoMemoized(code) ==
    LET start == CHOOSE i \in MemoMatchStarts(code) :
                    \A k \in MemoMatchStarts(code) : i <= k
        stop  == FirstReturnFrom(code, start)
    IN  SubSeq(code, 1, start - 1)
            \o (IF code[stop] = FibFunction
                THEN [GeoMemoTemplate EXCEPT
                         ![Len(GeoMemoTemplate)] = MemoReturnBrace]
                ELSE GeoMemoTemplate)
            \o SubSeq(code, stop + 1, Len(code))

\* the line holds a match of
\* /for\s*\([^)]+\)\s*\{\s*for\s*\([^)]+\)\s*\{[\s\S]*?\}\s*\}/
NestedLoopsMatch(line) ==
    line \in {NestedLoop, NestedLoopAdjacent, NestedLoopOther}

\* nestedLoopsRegex.test(code)
nestedLoopsRegexTest(code) ==
    \E i \in 1..Len(code) : NestedLoopsMatch(code[i])

\* the line holds a match of the pattern of optimizeNestedLoops, which asks
\* for the indices "let i = 0" and "let j = 0"
FlattenableLoop(line) == line \in {NestedLoop, NestedLoopAdjacent}

\* innerCode.includes("j+1") || innerCode.includes("j-1")
InnerCodeAdjacent(line) == line = NestedLoopAdjacent

\* what the replace of optimizeNestedLoops leaves of one line
FlattenedLine(line) ==
    IF FlattenableLoop(line) /\ ~InnerCodeAdjacent(line)
    THEN FlattenedLoop
    ELSE <<line>>

RECURSIVE FlattenFrom(_, _)
FlattenFrom(code, i) ==
    IF i > Len(code) THEN << >>
    ELSE FlattenedLine(code[i]) \o FlattenFrom(code, i + 1)

optimizeNestedLoops(code) == FlattenFrom(code, 1)

\* the four-line pattern of optimizePythonComprehensions starts at line i
PythonFilterLoopAt(code, i) ==
    /\ i + 3 <= Len(code)
    /\ code[i] = GeoPyInit
    /\ code[i + 1] = GeoPyFor
    /\ code[i + 2] = GeoPyIf
    /\ code[i + 3] = GeoPyAppend

RECURSIVE ReplacePythonFilterLoops(_, _)
ReplacePythonFilterLoops(code, i) ==
    IF i > Len(code) THEN << >>
    ELSE IF PythonFilterLoopAt(code, i)
         THEN GeoPyComprehension \o ReplacePythonFilterLoops(code, i + 4)
         ELSE <<code[i]>> \o ReplacePythonFilterLoops(code, i + 1)

optimizePythonComprehensions(code) == ReplacePythonFilterLoops(code, 1)

OptimizationResult(optimizedCode, description, performanceGain, complexityReduction) ==
    [optimizedCode |-> optimizedCode,
     description |-> description,
     improvements |-> [performanceGain |-> performanceGain,
                       complexityReduction |-> complexityReduction]]

\* a slip: the nested loops looked at before the Fibonacci function
applyGeometricOptimizationLoopsFirst(code, language, storedDomains) ==
    IF "Mathematics" \notin storedDomains
    THEN OptimizationResult(code,
            "No mathematical domain knowledge available", 0, 0)
    ELSE IF (language = "javascript" \/ language = "typescript")
                /\ nestedLoopsRegexTest(code)
    THEN OptimizationResult(optimizeNestedLoops(code),
            "Applied dimensional reduction inspired by sheaf cohomology to optimize nested loops",
            60, 40)
    ELSE IF (language = "javascript" \/ language = "typescript")
                /\ fibonacciRegexTest(code)
    THEN OptimizationResult(GeoMemoized(code),
            "Applied cohomological homogenization principles to optimize recursive structure",
            95, 85)
    ELSE OptimizationResult(code,
            "No applicable geometric optimization patterns found", 0, 0)

\* storedDomains: the names of the domains storage.getDomains() returns
applyGeometricOptimization(code, language, storedDomains) ==
    IF "Mathematics" \notin storedDomains
    THEN OptimizationResult(code,
            "No mathematical domain knowledge available", 0, 0)
    ELSE IF (language = "javascript" \/ language = "typescript")
                /\ fibonacciRegexTest(code)
    THEN OptimizationResult(GeoMemoized(code),
            "Applied cohomological homogenization principles to optimize recursive structure",
            95, 85)
    ELSE IF (language = "javascript" \/ language = "typescript")
                /\ nestedLoopsRegexTest(code)
    THEN OptimizationResult(optimizeNestedLoops(code),
            "Applied dimensional reduction inspired by sheaf cohomology to optimize nested loops",
            60, 40)
    ELSE IF language = "python"
                /\ GeoIncludes(code, "for") /\ GeoIncludes(code, "if")
                /\ GeoIncludes(code, "[") /\ GeoIncludes(code, "]")
    THEN OptimizationResult(optimizePythonComprehensions(code),
            "Applied algebraic variety principles to optimize list comprehensions",
            40, 30)
    ELSE OptimizationResult(code,
            "No applicable geometric optimization patterns found", 0, 0)

GeoSources == SeqsUpTo(GeoSourceLines, MaxGeoLen) \ {<< >>}

\* names of the domains storage.getDomains() may return. DatabaseStorage seeds
\* them from its constructor without awaiting, into an empty table only, and
\* swallows a failure: a call may find any of them missing.
DomainNames == {"Mathematics", "Computer Science"}

\* no call of analyzeCode is under way
AnalyzerOff ==
    /\ request = [code |-> << >>, filename |-> "", language |-> "",
                  optimizationTypes |-> {}, applicableDomains |-> NoFilter]
    /\ result = << >>
    /\ pc = "off"
    /\ earlier = << >>

InitGeometric ==
    /\ AnalyzerOff
    /\ loop = LoopOff
    /\ srv = ServerOff
    /\ geo \in [code : GeoSources,
                language : Languages,
                storedDomains : SUBSET DomainNames,
                result : {<< >>},
                pc : {"idle"}]

\* the call applyGeometricOptimization(code, language), from entry to return
Optimize ==
    /\ geo.pc = "idle"
    /\ geo' = [geo EXCEPT
                  !.result = << applyGeometricOptimization(
                                    geo.code, geo.language,
                                    geo.storedDomains) >>,
                  !.pc = "done"]
    /\ UNCHANGED <<request, result, pc, earlier, loop, srv>>

NextGeometric == Optimize

SpecGeometric == InitGeometric /\ [][NextGeometric]_vars

---------------------------------------------------------------------------
(* The loop optimizeNestedLoops emits, run beside the loops it replaces *)

\* a slip: the outer bound as divisor
FlatIndicesByOuter(idx, outerLimit, innerLimit) ==
    <<idx \div outerLimit, idx % outerLimit>>

\* "const i = Math.floor(idx / innerLimit); const j = idx % innerLimit;"
FlatIndices(idx, outerLimit, innerLimit) ==
    <<idx \div innerLimit, idx % innerLimit>>

InitLoops ==
    /\ AnalyzerOff
    /\ geo = GeoOff
    /\ srv = ServerOff
    /\ loop \in [outerLimit : 0..MaxLimit,
                 innerLimit : 0..MaxLimit,
                 idx : {0}, flatVisited : {<< >>},
                 i : {0}, j : {0}, nestedVisited : {<< >>},
                 pc : {"running"}]

\* one pass through the body of
\* "for (let idx = 0; idx < outerLimit * innerLimit; idx++)"
FlatIteration ==
    /\ loop.pc = "running"
    /\ loop.idx < loop.outerLimit * loop.innerLimit
    /\ loop' = [loop EXCEPT
                   !.flatVisited =
                       Append(@, FlatIndices(loop.idx, loop.outerLimit,
                                             loop.innerLimit)),
                   !.idx = @ + 1]
    /\ UNCHANGED <<request, result, pc, earlier, geo, srv>>

\* one pass through the body of "for (let i = 0; i < outerLimit; i++) {
\* for (let j = 0; j < innerLimit; j++) {"
NestedIteration ==
    /\ loop.pc = "running"
    /\ loop.i < loop.outerLimit
    /\ loop.j < loop.innerLimit
    /\ loop' = [loop EXCEPT
                   !.nestedVisited = Append(@, <<loop.i, loop.j>>),
                   !.j = IF loop.j + 1 < loop.innerLimit THEN @ + 1 ELSE 0,
                   !.i = IF loop.j + 1 < loop.innerLimit THEN @ ELSE @ + 1]
    /\ UNCHANGED <<request, result, pc, earlier, geo, srv>>

NextLoops == FlatIteration \/ NestedIteration

SpecLoops == InitLoops /\ [][NextLoops]_vars

---------------------------------------------------------------------------
(* POST /api/analyze over the storage *)

\* a slip: DatabaseStorage incrementing after the set, starting from 0
AllocatedIdPostIncrement(kind, analysisResultId) == analysisResultId

\* the id saveAnalysisResult stores under: DatabaseStorage starts at 0 and
\* increments before the set ("this.analysisResultId++" first), MemStorage
\* starts at 1 and increments after taking the id
AllocatedId(kind, analysisResultId) ==
    IF kind = "database" THEN analysisResultId + 1 ELSE analysisResultId

\* the keys codeAnalysisRequestSchema requires
RequiredKeys == {"code", "filename", "language", "optimizationTypes"}

\* a request body: the values of its keys and the keys it lacks
Body(code, filename, language, optimizationTypes, missing) ==
    [code |-> code, filename |-> filename, language |-> language,
     optimizationTypes |-> optimizationTypes, missing |-> missing]

ValidBodies ==
    <<Body(<<FibFunction, InnerAssign>>, "a.js", "javascript",
           {"performance", "security"}, {}),
      Body(<<VarDecl>>, "a.js", "javascript", {}, {}),
      Body(<<VarDecl>>, "b.js", "javascript", {}, {})>>

\* bodies the schema refuses, each for one reason
InvalidBodies ==
    <<Body(<< >>, "a.js", "javascript", {"performance"}, {}),
      Body(<<VarDecl>>, "", "javascript", {"performance"}, {}),
      Body(<<VarDecl>>, "a.js", "", {"performance"}, {}),
      Body(<<VarDecl>>, "a.js", "javascript", {"performance", "speed"}, {}),
      Body(<<VarDecl>>, "a.js", "javascript", {"performance"}, {"code"}),
      Body(<<VarDecl>>, "a.js", "javascript", {"performance"}, {"filename"}),
      Body(<<VarDecl>>, "a.js", "javascript", {"performance"}, {"language"}),
      Body(<<VarDecl>>, "a.js", "javascript", {"performance"},
           {"optimizationTypes"})>>

\* the bodies of the requests, in the order the handlers are numbered by
Bodies == InvalidBodies \o ValidBodies

\* a slip: z.string() without min(1) for the code
safeParseAnyCode(body) ==
    /\ body.missing \cap RequiredKeys = {}
    /\ body.filename # ""
    /\ body.language # ""
    /\ body.optimizationTypes \subseteq OptimizationTypes

\* codeAnalysisRequestSchema.safeParse(req.body).success
safeParse(body) ==
    /\ body.missing \cap RequiredKeys = {}
    /\ body.code # << >>
    /\ body.filename # ""
    /\ body.language # ""
    /\ body.optimizationTypes \subseteq OptimizationTypes

\* what Math.random() has in store for the requests of a run
RouteDraws == {<<u, u, u>> : u \in {<<0, 1>>, <<99, 100>>}}

\* map.set(key, value)
MapSet(map, key, value) ==
    [k \in DOMAIN map \cup {key} |-> IF k = key THEN value ELSE map[k]]

\* a handler of POST /api/analyze that has not been entered
NewHandler(body) ==
    [body |-> body, pc |-> "received", result |-> << >>, sampleId |-> 0,
     k |-> 1, status |-> 0, resultId |-> 0, created |-> << >>]

InitRoutes ==
    /\ AnalyzerOff
    /\ geo = GeoOff
    /\ loop = LoopOff
    /\ \E kind \in {"database", "memory"} :
       \* the handlers are numbered by their bodies: which of them runs is the
       \* choice of Next, so every order of arrival is covered
       \E n \in [1..NumRequests -> 1..Len(Bodies)] :
       \E random \in RouteDraws :
          /\ \A h \in 1..(NumRequests - 1) : n[h] <= n[h + 1]
          /\ srv = [pc |-> "routes",
                    storage |-> kind,
                    random |-> random,
                    codeSamples |-> << >>,
                    codeSampleId |-> 1,
                    optimizations |-> << >>,
                    optimizationId |-> 1,
                    analysisResults |-> << >>,
                    analysisResultId |-> IF kind = "database" THEN 0 ELSE 1,
                    analyzeCalls |-> 0,
                    handlers |-> [h \in 1..NumRequests |->
                                     NewHandler(Bodies[n[h]])]]

Handler(h) == srv.handlers[h]

\* the handlers in flight interleave at their awaits: every action below is
\* the code between two awaits, with the one storage call that ends it

\* the handler from its entry to "await storage.getCodeSamples()": the body
\* is validated, 400 is answered or the code is analysed
Receive(h) ==
    /\ srv.pc = "routes"
    /\ Handler(h).pc = "received"
    /\ LET body == Handler(h).body
       IN  IF safeParse(body)
           THEN srv' = [srv EXCEPT
                       !.analyzeCalls = @ + 1,
                       !.handlers[h].result =
                           << analyzeCode(body.code, body.filename,
                                          body.language,
                                          body.optimizationTypes,
                                          NoFilter, srv.random) >>,
                       !.handlers[h].pc = "getCodeSamples"]
           ELSE srv' = [srv EXCEPT
                       !.handlers[h].status = 400,
                       !.handlers[h].pc = "done"]
    /\ UNCHANGED <<request, result, pc, earlier, geo, loop>>

\* the samples samples.find may return: the first match of the list.
\* MemStorage lists in insertion order, DatabaseStorage by createdAt
\* descending, where samples created at the same time come in any order.
FoundSamples(body) ==
    LET matches == {i \in 1..Len(srv.codeSamples) :
                       /\ srv.codeSamples[i].filename = body.filename
                       /\ srv.codeSamples[i].content = body.code}
    IN  IF matches = {} THEN {}
        ELSE IF srv.storage = "memory"
             THEN {srv.codeSamples[CHOOSE i \in matches :
                                      \A j \in matches : i <= j]}
             ELSE {srv.codeSamples[i] : i \in matches}

\* "const samples = await storage.getCodeSamples()" and the find over them
GetCodeSamples(h) ==
    /\ srv.pc = "routes"
    /\ Handler(h).pc = "getCodeSamples"
    /\ LET found == FoundSamples(Handler(h).body)
       IN  IF found = {}
           THEN srv' = [srv EXCEPT !.handlers[h].pc = "createCodeSample"]
           ELSE \E existingSample \in found :
                   srv' = [srv EXCEPT
                       !.handlers[h].sampleId = existingSample.id,
                       !.handlers[h].pc = "createOptimization"]
    /\ UNCHANGED <<request, result, pc, earlier, geo, loop>>

\* "const newSample = await storage.createCodeSample({...})"
CreateCodeSample(h) ==
    /\ srv.pc = "routes"
    /\ Handler(h).pc = "createCodeSample"
    /\ LET body == Handler(h).body
           id == srv.codeSampleId
       IN  srv' = [srv EXCEPT
               !.codeSampleId = @ + 1,
               !.codeSamples = Append(@, [id |-> id,
                                          filename |-> body.filename,
                                          language |-> body.language,
                                          content |-> body.code]),
               !.handlers[h].sampleId = id,
               !.handlers[h].pc = "createOptimization"]
    /\ UNCHANGED <<request, result, pc, earlier, geo, loop>>

\* a slip: the performance score stored with every optimization
AxisScorePerformance(r, type) == r.metrics.performanceScore

\* the score of the axis the insight's type names
AxisScore(r, type) ==
    IF type = "performance" THEN r.metrics.performanceScore
    ELSE IF type = "security" THEN r.metrics.securityScore
    ELSE r.metrics.readabilityScore

\* the record createOptimization is handed for an insight
OptimizationFor(sampleId, r, insight) ==
    [sampleId |-> sampleId,
     type |-> insight.type,
     optimizedContent |-> r.optimizedCode,
     improvements |-> [score |-> AxisScore(r, insight.type),
                       percentage |-> r.metrics.improvementPercentage,
                       description |-> insight.description,
                       technique |-> insight.appliedTechnique],
     domainKnowledge |-> IF Len(r.domains) > 0 THEN r.domains[1].name
                         ELSE "null"]

\* one pass of "for (const insight of result.insights)
\* await storage.createOptimization({...})"
CreateOptimization(h) ==
    /\ srv.pc = "routes"
    /\ Handler(h).pc = "createOptimization"
    /\ LET r == Handler(h).result[1]
           id == srv.optimizationId
           row == [id |-> id] @@ OptimizationFor(Handler(h).sampleId, r,
                                                 r.insights[Handler(h).k])
       IN  srv' = [srv EXCEPT
               !.optimizationId = @ + 1,
               !.optimizations = Append(@, row),
               !.handlers[h].created = Append(@, id),
               !.handlers[h].k = @ + 1,
               !.handlers[h].pc = IF Handler(h).k < Len(r.insights)
                                  THEN "createOptimization"
                                  ELSE "saveAnalysisResult"]
    /\ UNCHANGED <<request, result, pc, earlier, geo, loop>>

\* "const resultId = await storage.saveAnalysisResult(result)" and the
\* response: DatabaseStorage counts from 0 and increments before the set,
\* MemStorage counts from 1 and increments after it
SaveAnalysisResult(h) ==
    /\ srv.pc = "routes"
    /\ Handler(h).pc = "saveAnalysisResult"
    /\ LET id == AllocatedId(srv.storage, srv.analysisResultId)
       IN  srv' = [srv EXCEPT
               !.analysisResultId = @ + 1,
               !.analysisResults = MapSet(@, id, Handler(h).result[1]),
               !.handlers[h].resultId = id,
               !.handlers[h].status = 200,
               !.handlers[h].pc = "done"]
    /\ UNCHANGED <<request, result, pc, earlier, geo, loop>>

\* a query of DatabaseStorage rejects: the catch answers 500
QueryFails(h) ==
    /\ srv.pc = "routes"
    /\ srv.storage = "database"
    /\ Handler(h).pc \in {"getCodeSamples", "createCodeSample",
                          "createOptimization"}
    /\ srv' = [srv EXCEPT !.handlers[h].status = 500,
                          !.handlers[h].pc = "done"]
    /\ UNCHANGED <<request, result, pc, earlier, geo, loop>>

NextRoutes ==
    \/ \E h \in 1..NumRequests : Receive(h)
    \/ \E h \in 1..NumRequests : GetCodeSamples(h)
    \/ \E h \in 1..NumRequests : CreateCodeSample(h)
    \/ \E h \in 1..NumRequests : CreateOptimization(h)
    \/ \E h \in 1..NumRequests : SaveAnalysisResult(h)
    \/ \E h \in 1..NumRequests : QueryFails(h)

SpecRoutes == InitRoutes /\ [][NextRoutes]_vars

---------------------------------------------------------------------------
(* processChat *)

\* a message that is no string: message.toLowerCase is no function
NotAString == "<not a string>"

ChatMessages ==
    {"Research cohomology in Mathematics", "What is the latest on P vs NP?",
     "Explain P vs NP", "Tell me about geometric complexity",
     "Optimize this function", "Improve yourself", "Please self-improve",
     "Update your code", "Analyze yourself",
     "Analyze yourself using cohomology", "Hello", NotAString}

\* the keywords of processChat message.toLowerCase() includes
KeywordsIn(message) ==
    CASE message = "Research cohomology in Mathematics" ->
            {"research", "cohomology"}
      [] message = "What is the latest on P vs NP?" -> {"latest", "p vs np"}
      [] message = "Explain P vs NP" -> {"p vs np"}
      [] message = "Tell me about geometric complexity" ->
            {"complexity", "geometric"}
      [] message = "Optimize this function" -> {"optimize"}
      [] message = "Improve yourself" -> {"improve", "improve yourself"}
      [] message = "Please self-improve" -> {"improve", "self-improve"}
      [] message = "Update your code" -> {"code", "update your code"}
      [] message = "Analyze yourself" -> {"analyze yourself"}
      [] message = "Analyze yourself using cohomology" ->
            {"cohomology", "analyze yourself"}
      [] OTHER -> {}

ResearchKeywords == {"research", "learn online", "find information", "latest"}

ComplexityKeywords == {"p vs np", "complexity", "geometric", "cohomology"}

OptimizationKeywords == {"optimize", "improve", "code"}

SelfImprovementKeywords ==
    {"improve yourself", "self-improve", "update your code", "analyze yourself"}

\* the names of the domains the topic of the message mentions
\* (topic.toLowerCase().includes(d.name.toLowerCase()))
DomainsInTopic(message) ==
    IF message = "Research cohomology in Mathematics" THEN {"Mathematics"}
    ELSE {}

\* the if / else-if chain of processChat
ChatBranch(message) ==
    IF KeywordsIn(message) \cap ResearchKeywords # {} THEN "research"
    ELSE IF KeywordsIn(message) \cap ComplexityKeywords # {} THEN "complexity"
    ELSE IF KeywordsIn(message) \cap OptimizationKeywords # {}
         THEN "optimization"
    ELSE IF KeywordsIn(message) \cap SelfImprovementKeywords # {}
         THEN "self-improvement"
    ELSE "default"

\* knowledge extractions the storage may hold
CohomologyExtraction ==
    [domain |-> "Mathematics", technique |-> "Sheaf Cohomology",
     description |-> "Varieties with trivial cohomology correspond to class P"]

StyleExtraction ==
    [domain |-> "Computer Science", technique |-> "Code Style",
     description |-> "Consistent naming improves maintenance"]

\* the filter over the extractions in the complexity branch
RelevantExtraction(e) == e = CohomologyExtraction

\* testCode of the optimization branch: a recursive fibonacci function
\* followed by a function with a doubly-nested loop
ChatTestCode == <<FibHead, FibReturn, NestedLoop>>

\* a ChatResponse: the message as the texts appended to it, and with it the
\* knowledge extractions the call has stored
ChatResponse(message, sourcedKnowledge, codeImprovements, saved) ==
    [message |-> message, sourcedKnowledge |-> sourcedKnowledge,
     codeImprovements |-> codeImprovements, saved |-> saved]

\* what the outer catch returns
ChatError ==
    ChatResponse(<<"I encountered an error while processing your request. Please try again.">>,
                 << >>, 0, << >>)

\* the research branch; found: research.results.length > 0
ResearchBranch(message, domains, found, storageFails) ==
    LET head == <<"I've researched information about ... online. Here's what I found:", "<research.summary>">>
        relevant == IF DomainsInTopic(message) \cap domains # {}
                    THEN DomainsInTopic(message) \cap domains
                    ELSE IF "Mathematics" \in domains THEN {"Mathematics"}
                    ELSE domains
    IN  IF ~found THEN ChatResponse(head, << >>, 0, << >>)
        ELSE IF storageFails \/ relevant = {}
             \* the inner catch: a rejected query, or domains[0] undefined
             THEN ChatResponse(Append(head, "Sources:"), << >>, 0, << >>)
             ELSE ChatResponse(
                     head \o <<"Sources:", "I've added this knowledge to my learning database for future use.">>,
                     <<"Web Research">>, 0,
                     <<[domain |-> CHOOSE d \in relevant : TRUE,
                        technique |-> "Web Research"]>>)

\* the complexity branch
ComplexityBranch(domains, extractions, storageFails) ==
    IF storageFails THEN ChatError
    ELSE IF {"Mathematics", "Computer Science"} \subseteq domains
            /\ \E e \in extractions : RelevantExtraction(e)
         THEN ChatResponse(
                 <<"Based on our research knowledge:",
                   CohomologyExtraction.description,
                   "In summary, the Geometric-Computational Duality framework ...">>,
                 <<CohomologyExtraction.technique>>, 0, << >>)
         ELSE ChatResponse(<< >>, << >>, 0, << >>)

\* the code optimization branch
OptimizationBranch(domains, storageFails) ==
    IF storageFails THEN ChatError
    ELSE LET optimizationResult ==
                 applyGeometricOptimization(ChatTestCode, "javascript", domains)
         IN  IF optimizationResult.improvements.performanceGain > 0
             THEN ChatResponse(
                     <<"I can apply advanced optimization techniques from our research knowledge. For example:",
                       "Here's how I would optimize this recursive function:">>
                         \o optimizationResult.optimizedCode
                         \o <<optimizationResult.description,
                              "I've also identified some possible improvements to our codebase that could be applied using similar principles.">>,
                     <<"Geometric Optimization", "Cohomological Techniques">>,
                     1, << >>)
             ELSE ChatResponse(<< >>, << >>, 0, << >>)

\* the self-improvement branch: analyzeSelfCode returns its two suggestions
SelfImprovementBranch(domains, storageFails) ==
    ChatResponse(
        <<"I've analyzed my own code and found opportunities for improvement based on what I've learned:",
          "For the file server/lib/geometricOptimizer.ts, I would make these improvements:",
          "I've also identified 1 other improvements that could be made to enhance my capabilities.",
          "I can now research online to continuously learn and improve myself ...">>,
        <<"Self-Improvement Mechanisms", "Code Analysis", "Self-Analysis",
          "Continuous Learning">>,
        2,
        IF storageFails \/ "Computer Science" \notin domains THEN << >>
        ELSE LET saved == [domain |-> "Computer Science",
                           technique |-> "Self-Code-Analysis"]
             IN  <<saved, saved>>)

DefaultBranch ==
    ChatResponse(
        <<"I'm an AI assistant that's been learning from research papers like the Geometric-Computational Duality approach to P vs NP. I can:",
          "What would you like to know more about?">>,
        << >>, 0, << >>)

\* processChat, from entry to return: the try with its branches, and the catch
processChat(message, domains, extractions, found, storageFails) ==
    IF message = NotAString THEN ChatError
    ELSE LET branch == ChatBranch(message)
         IN  CASE branch = "research" ->
                     ResearchBranch(message, domains, found, storageFails)
               [] branch = "complexity" ->
                     ComplexityBranch(domains, extractions, storageFails)
               [] branch = "optimization" ->
                     OptimizationBranch(domains, storageFails)
               [] branch = "self-improvement" ->
                     SelfImprovementBranch(domains, storageFails)
               [] OTHER -> DefaultBranch

InitChat ==
    /\ AnalyzerOff
    /\ geo = GeoOff
    /\ loop = LoopOff
    /\ srv \in [pc : {"chat"},
                message : ChatMessages,
                domains : SUBSET DomainNames,
                extractions : SUBSET {CohomologyExtraction, StyleExtraction},
                found : BOOLEAN,
                storageFails : BOOLEAN,
                saved : {<< >>},
                response : {<< >>}]

\* POST /api/chat: "const chatResponse = await processChat(req.body)"
Chat ==
    /\ srv.pc = "chat"
    /\ LET chatResponse == processChat(srv.message, srv.domains,
                                       srv.extractions, srv.found,
                                       srv.storageFails)
       IN  srv' = [srv EXCEPT !.pc = "answered",
                              !.response = <<chatResponse>>,
                              !.saved = chatResponse.saved]
    /\ UNCHANGED <<request, result, pc, earlier, geo, loop>>

NextChat == Chat

SpecChat == InitChat /\ [][NextChat]_vars

---------------------------------------------------------------------------
(* POST /api/analyze-paper *)

\* the createKnowledgeExtraction calls the loop over the domains makes for
\* one domain: mentioned, the domain's name is in the summary or in a
\* connection; algorithm, a key concept names one of its algorithms;
\* inPaper, the content or the title of the paper holds its name
ExtractionsFor(domain, mentioned, algorithm, inPaper) ==
    (IF mentioned
     THEN <<[domain |-> domain, technique |-> "Cross-domain connection"]>>
     ELSE << >>)
    \o (IF algorithm
        THEN <<[domain |-> domain, technique |-> "<concept>"]>>
        ELSE << >>)
    \o (IF ~mentioned /\ ~algorithm /\ inPaper
        THEN <<[domain |-> domain, technique |-> "General reference"]>>
        ELSE << >>)

\* the stored domains in the order getDomains lists them
DomainList(names) ==
    (IF "Mathematics" \in names THEN <<"Mathematics">> ELSE << >>)
    \o (IF "Computer Science" \in names THEN <<"Computer Science">> ELSE << >>)

RECURSIVE ExtractionsOver(_, _)
\* the calls of the whole loop, in its order
ExtractionsOver(list, paper) ==
    IF list = << >> THEN << >>
    ELSE ExtractionsFor(list[1], list[1] \in paper.mentioned,
                        list[1] \in paper.algorithms,
                        list[1] \in paper.inPaper)
         \o ExtractionsOver(Tail(list), paper)

\* a request: whether its body passes paperAnalysisRequestSchema, and of
\* which domains the paper and its analysis speak
PaperRequests ==
    [valid : BOOLEAN,
     mentioned : SUBSET DomainNames,
     algorithms : SUBSET DomainNames,
     inPaper : SUBSET DomainNames]

InitPaper ==
    /\ AnalyzerOff
    /\ geo = GeoOff
    /\ loop = LoopOff
    /\ \E paper \in PaperRequests : \E names \in SUBSET DomainNames :
          srv = [pc |-> "paper",
                 body |-> paper,
                 domains |-> names,
                 papers |-> << >>,
                 extractions |-> << >>,
                 at |-> "received",
                 todo |-> << >>,
                 paperId |-> 0,
                 status |-> 0,
                 response |-> << >>,
                 failedAt |-> "nowhere"]

\* safeParse, and the 400
ParsePaper ==
    /\ srv.pc = "paper"
    /\ srv.at = "received"
    /\ srv' = IF srv.body.valid
              THEN [srv EXCEPT !.at = "analyzeResearchPaper"]
              ELSE [srv EXCEPT !.at = "done", !.status = 400]
    /\ UNCHANGED <<request, result, pc, earlier, geo, loop>>

\* "const result = await analyzeResearchPaper(...)"
AnalyzePaper ==
    /\ srv.pc = "paper"
    /\ srv.at = "analyzeResearchPaper"
    /\ srv' = [srv EXCEPT !.at = "createResearchPaper"]
    /\ UNCHANGED <<request, result, pc, earlier, geo, loop>>

\* "const paper = await storage.createResearchPaper({...})"
CreateResearchPaper ==
    /\ srv.pc = "paper"
    /\ srv.at = "createResearchPaper"
    /\ srv' = [srv EXCEPT
                  !.papers = Append(@, [id |-> Len(@) + 1]),
                  !.paperId = Len(srv.papers) + 1,
                  !.at = "getDomains"]
    /\ UNCHANGED <<request, result, pc, earlier, geo, loop>>

\* the analysis or the insert of the paper rejects: the outer catch, 500
AnalysisFails ==
    /\ srv.pc = "paper"
    /\ srv.at \in {"analyzeResearchPaper", "createResearchPaper"}
    /\ srv' = [srv EXCEPT !.at = "done", !.status = 500, !.failedAt = srv.at]
    /\ UNCHANGED <<request, result, pc, earlier, geo, loop>>

\* "res.json({...result, paperId: paper.id})"
Respond(s) ==
    [s EXCEPT !.at = "done", !.status = 200,
              !.response = <<[paperId |-> s.paperId]>>]

\* "const domains = await storage.getDomains()"
GetDomains ==
    /\ srv.pc = "paper"
    /\ srv.at = "getDomains"
    /\ LET todo == ExtractionsOver(DomainList(srv.domains), srv.body)
       IN  srv' = IF todo = << >>
                  THEN Respond(srv)
                  ELSE [srv EXCEPT !.at = "createKnowledgeExtraction",
                                   !.todo = todo]
    /\ UNCHANGED <<request, result, pc, earlier, geo, loop>>

\* one "await storage.createKnowledgeExtraction({...})" of the loop
CreateKnowledgeExtraction ==
    /\ srv.pc = "paper"
    /\ srv.at = "createKnowledgeExtraction"
    /\ LET stored == [srv EXCEPT
                         !.extractions =
                             Append(@, [paperId |-> srv.paperId]
                                           @@ Head(srv.todo)),
                         !.todo = Tail(@)]
       IN  srv' = IF Tail(srv.todo) = << >> THEN Respond(stored) ELSE stored
    /\ UNCHANGED <<request, result, pc, earlier, geo, loop>>

\* a slip: the knowledge extraction without a try of its own
ExtractionFailsUncaught ==
    /\ srv.pc = "paper"
    /\ srv.at \in {"getDomains", "createKnowledgeExtraction"}
    /\ srv' = [srv EXCEPT !.at = "done", !.status = 500, !.failedAt = srv.at]
    /\ UNCHANGED <<request, result, pc, earlier, geo, loop>>

\* a query of the knowledge extraction rejects: the inner catch warns, and
\* the handler goes on to the response
ExtractionFails ==
    /\ srv.pc = "paper"
    /\ srv.at \in {"getDomains", "createKnowledgeExtraction"}
    /\ srv' = [Respond(srv) EXCEPT !.failedAt = srv.at]
    /\ UNCHANGED <<request, result, pc, earlier, geo, loop>>

NextPaper ==
    \/ ParsePaper
    \/ AnalyzePaper
    \/ CreateResearchPaper
    \/ AnalysisFails
    \/ GetDomains
    \/ CreateKnowledgeExtraction
    \/ ExtractionFails

SpecPaper == InitPaper /\ [][NextPaper]_vars

---------------------------------------------------------------------------
(* saveAnalysisResult and getAnalysisResult *)

\* stand-ins for the AnalysisResult objects handed to saveAnalysisResult
SavedResults == {"result A", "result B"}

\* this.analysisResults.get(id)
getAnalysisResult(analysisResults, id) ==
    IF id \in DOMAIN analysisResults THEN analysisResults[id] ELSE "undefined"

InitResults ==
    /\ AnalyzerOff
    /\ geo = GeoOff
    /\ loop = LoopOff
    /\ \E kind \in {"database", "memory"} :
          srv = [pc |-> "results",
                 storage |-> kind,
                 analysisResults |-> << >>,
                 analysisResultId |-> IF kind = "database" THEN 0 ELSE 1,
                 saved |-> << >>,
                 returned |-> << >>,
                 got |-> << >>]

\* storage.saveAnalysisResult(result): no await inside, one step
SaveResult ==
    /\ srv.pc = "results"
    /\ Len(srv.saved) < MaxSaves
    /\ \E r \in SavedResults :
          LET id == AllocatedId(srv.storage, srv.analysisResultId)
          IN  srv' = [srv EXCEPT
                         !.analysisResultId = @ + 1,
                         !.analysisResults = MapSet(@, id, r),
                         !.saved = Append(@, r),
                         !.returned = Append(@, id)]
    /\ UNCHANGED <<request, result, pc, earlier, geo, loop>>

\* storage.getAnalysisResult(id)
GetResult ==
    /\ srv.pc = "results"
    /\ \E id \in 0..(MaxSaves + 1) :
          srv' = [srv EXCEPT
                     !.got = <<[id |-> id,
                                allocated |-> Len(srv.saved),
                                value |-> getAnalysisResult(
                                              srv.analysisResults, id)]>>]
    /\ UNCHANGED <<request, result, pc, earlier, geo, loop>>

NextResults == SaveResult \/ GetResult

SpecResults == InitResults /\ [][NextResults]_vars

---------------------------------------------------------------------------
(* POST /api/domains *)

\* the name of a request body; "" stands for a body without a name
DomainRequestNames == {"Mathematics", "mathematics", "Physics", ""}

\* name.toLowerCase()
LowerCase(name) == IF name = "Mathematics" THEN "mathematics" ELSE name

\* the domains the constructors seed
SeededDomains ==
    <<[id |-> 1, name |-> "Mathematics"], [id |-> 2, name |-> "Computer Science"]>>

\* storage.getDomainByName(name) finds a domain: MemStorage compares the
\* lower-cased names, DatabaseStorage the names
DomainFound(kind, domains, name) ==
    \E i \in 1..Len(domains) :
        IF kind = "memory"
        THEN LowerCase(domains[i].name) = LowerCase(name)
        ELSE domains[i].name = name

InitDomains ==
    /\ AnalyzerOff
    /\ geo = GeoOff
    /\ loop = LoopOff
    /\ \E kind \in {"database", "memory"} :
       \E names \in [1..NumRequests -> DomainRequestNames] :
       \* MemStorage has seeded when it is constructed; DatabaseStorage seeds
       \* an empty table only, and its seeding may have failed
       \E seeded \in IF kind = "memory" THEN {SeededDomains}
                     ELSE {SeededDomains, << >>} :
          srv = [pc |-> "domains",
                 storage |-> kind,
                 domains |-> seeded,
                 domainId |-> Len(seeded) + 1,
                 handlers |-> [h \in 1..NumRequests |->
                                  [name |-> names[h], pc |-> "received",
                                   storedAtEntry |-> FALSE, status |-> 0,
                                   created |-> 0, failed |-> FALSE]]]

\* the handler up to "await storage.getDomainByName(name)"
ReceiveDomain(h) ==
    /\ srv.pc = "domains"
    /\ Handler(h).pc = "received"
    /\ srv' = IF Handler(h).name = ""
              THEN [srv EXCEPT !.handlers[h].status = 400,
                               !.handlers[h].pc = "done"]
              ELSE [srv EXCEPT
                       !.handlers[h].storedAtEntry =
                           \E i \in 1..Len(srv.domains) :
                               srv.domains[i].name = Handler(h).name,
                       !.handlers[h].pc = "getDomainByName"]
    /\ UNCHANGED <<request, result, pc, earlier, geo, loop>>

\* "const existingDomain = await storage.getDomainByName(name)", the 409
GetDomainByName(h) ==
    /\ srv.pc = "domains"
    /\ Handler(h).pc = "getDomainByName"
    /\ srv' = IF DomainFound(srv.storage, srv.domains, Handler(h).name)
              THEN [srv EXCEPT !.handlers[h].status = 409,
                               !.handlers[h].pc = "done"]
              ELSE [srv EXCEPT !.handlers[h].pc = "createDomain"]
    /\ UNCHANGED <<request, result, pc, earlier, geo, loop>>

\* "const newDomain = await storage.createDomain({...})": the insert of
\* DatabaseStorage rejects a name the table holds (name is unique), and the
\* catch answers 500; the map of MemStorage takes every domain
CreateDomain(h) ==
    /\ srv.pc = "domains"
    /\ Handler(h).pc = "createDomain"
    /\ srv' = IF /\ srv.storage = "database"
                 /\ \E i \in 1..Len(srv.domains) :
                       srv.domains[i].name = Handler(h).name
              THEN [srv EXCEPT !.handlers[h].status = 500,
                               !.handlers[h].pc = "done"]
              ELSE [srv EXCEPT
                       !.domainId = @ + 1,
                       !.domains = Append(@, [id |-> srv.domainId,
                                              name |-> Handler(h).name]),
                       !.handlers[h].created = srv.domainId,
                       !.handlers[h].status = 201,
                       !.handlers[h].pc = "done"]
    /\ UNCHANGED <<request, result, pc, earlier, geo, loop>>

\* a query of DatabaseStorage rejects for another reason: 500
DomainQueryFails(h) ==
    /\ srv.pc = "domains"
    /\ srv.storage = "database"
    /\ Handler(h).pc \in {"getDomainByName", "createDomain"}
    /\ srv' = [srv EXCEPT !.handlers[h].status = 500,
                          !.handlers[h].failed = TRUE,
                          !.handlers[h].pc = "done"]
    /\ UNCHANGED <<request, result, pc, earlier, geo, loop>>

NextDomains ==
    \/ \E h \in 1..NumRequests : ReceiveDomain(h)
    \/ \E h \in 1..NumRequests : GetDomainByName(h)
    \/ \E h \in 1..NumRequests : CreateDomain(h)
    \/ \E h \in 1..NumRequests : DomainQueryFails(h)

SpecDomains == InitDomains /\ [][NextDomains]_vars

---------------------------------------------------------------------------
(* What the claims speak of *)

Returned == pc = "done"

\* the AnalysisResult the call returned
Res == result[1]

IsJsTs == request.language \in {"javascript", "typescript"}

\* the pattern rules whose condition holds of the request
FibonacciFired ==
    IsJsTs /\ FibonacciDetected(request.code, request.optimizationTypes)

XssFired == IsJsTs /\ XssDetected(request.code, request.optimizationTypes)

ReadabilityFired ==
    IsJsTs /\ ReadabilityDetected(request.code, request.optimizationTypes)

PythonLoopFired ==
    /\ request.language = "python"
    /\ PythonLoopDetected(request.code, request.optimizationTypes)

AnyRuleFired ==
    FibonacciFired \/ XssFired \/ ReadabilityFired \/ PythonLoopFired

Techniques(r) ==
    {r.insights[i].appliedTechnique : i \in 1..Len(r.insights)}

InsightSet(r) == {r.insights[i] : i \in 1..Len(r.insights)}

---------------------------------------------------------------------------
(* C1 *)

\* the rewrites of the rules reported in r applied one after another to the
\* code, in the order performance, security, readability, each to the output
\* of the one before
SequentialRewrites(code, r) ==
    LET afterPerformance ==
            IF "Dynamic Programming" \in Techniques(r)
            THEN applyMemoization(code)
            ELSE IF "Pythonic Patterns" \in Techniques(r)
                 THEN optimizePythonLoop(code)
                 ELSE code
        afterSecurity ==
            IF "Input Sanitization" \in Techniques(r)
            THEN fixXssVulnerability(afterPerformance)
            ELSE afterPerformance
        afterReadability ==
            IF "Code Style Standardization" \in Techniques(r)
            THEN improveReadability(afterSecurity)
            ELSE afterSecurity
    IN  IF "Naming Conventions" \in Techniques(r)
        THEN suggestBetterVariableNames(afterReadability)
        ELSE afterReadability

\* C1: optimizedCode is the source after the rewrites of all fired rules,
\* applied one after another in the order performance, security,
\* readability, each on the output of the previous one.
C1_SequentialRewrites ==
    Returned => Res.optimizedCode = SequentialRewrites(request.code, Res)

---------------------------------------------------------------------------
(* C2 *)

\* C2: a rule whose detector matches but whose rewrite leaves the source
\* unchanged counts as "no optimization available": it records no insight
\* and no declared score or improvement percentage.
C2_UnchangedRewriteNotReported ==
    Returned =>
        /\ (FibonacciFired /\ applyMemoization(request.code) = request.code)
              => /\ "Dynamic Programming" \notin Techniques(Res)
                 /\ Res.metrics.performanceScore # 87
        /\ (XssFired /\ fixXssVulnerability(request.code) = request.code)
              => /\ "Input Sanitization" \notin Techniques(Res)
                 /\ Res.metrics.securityScore # 92
        /\ (ReadabilityFired /\ improveReadability(request.code) = request.code)
              => /\ "Code Style Standardization" \notin Techniques(Res)
                 /\ Res.metrics.readabilityScore # 78
        /\ (PythonLoopFired /\ optimizePythonLoop(request.code) = request.code)
              => /\ "Pythonic Patterns" \notin Techniques(Res)
                 /\ Res.metrics.performanceScore # 85

---------------------------------------------------------------------------
(* C3 *)

\* C3: the insights are never empty; the fallback readability insight
\* (Naming Conventions, readabilityScore 75, improvementPercentage 15) is
\* among them exactly when no pattern rule fired, and is then the only one.
C3_FallbackIffNoRuleFired ==
    Returned =>
        /\ Len(Res.insights) >= 1
        /\ (FallbackInsight \in InsightSet(Res)) <=> ~AnyRuleFired
        /\ ~AnyRuleFired =>
              /\ Res.insights = <<FallbackInsight>>
              /\ Res.metrics.readabilityScore = 75
              /\ Res.metrics.improvementPercentage = 15

\* the fallback taken with no optimization type requested at all
C3_Witness ==
    /\ Returned
    /\ request.optimizationTypes = {}
    /\ request.language = "javascript"
    /\ Includes(request.code, "innerHTML")
    /\ Res.insights = <<FallbackInsight>>

---------------------------------------------------------------------------
(* C4 *)

\* C4: the three scores and the improvement percentage of every result lie
\* in [0, 100], whatever combination of rules fired.
C4_ScoresWithinPercent ==
    Returned =>
        /\ Res.metrics.performanceScore \in 0..100
        /\ Res.metrics.securityScore \in 0..100
        /\ Res.metrics.readabilityScore \in 0..100
        /\ Res.metrics.improvementPercentage \in 0..100

\* two rules fired and the third axis drew the largest placeholder
C4_Witness ==
    /\ Returned
    /\ FibonacciFired /\ ReadabilityFired /\ ~XssFired
    /\ Res.metrics.performanceScore = 87
    /\ Res.metrics.securityScore = 89
    /\ Res.metrics.readabilityScore = 78
    /\ Res.metrics.improvementPercentage = 30

---------------------------------------------------------------------------
(* C5 *)

\* C5: every score axis for which no rule fired holds an integer in 70..90,
\* for every draw of the random source, and is never left at 0.
C5_PlaceholderRange ==
    Returned =>
        /\ ~(FibonacciFired \/ PythonLoopFired)
              => Res.metrics.performanceScore \in 70..90
        /\ ~XssFired => Res.metrics.securityScore \in 70..90
        /\ ~ReadabilityFired => Res.metrics.readabilityScore \in 70..90

\* one rule fired; the two other axes drew the smallest and the largest
\* placeholder
C5_Witness ==
    /\ Returned
    /\ XssFired /\ ~FibonacciFired /\ ~ReadabilityFired
    /\ Res.metrics.performanceScore = 70
    /\ Res.metrics.readabilityScore = 89

---------------------------------------------------------------------------
(* C6 *)

\* C6: the score on the axis of a fired rule is the score the rule declares,
\* never a placeholder: 87 for the Fibonacci memoization, 92 for innerHTML to
\* textContent, 78 for the readability rule, 85 for the Python rule, 75 for
\* the fallback.
C6_DeclaredScoreKept ==
    Returned =>
        /\ FibonacciFired => Res.metrics.performanceScore = 87
        /\ XssFired => Res.metrics.securityScore = 92
        /\ ReadabilityFired => Res.metrics.readabilityScore = 78
        /\ PythonLoopFired => Res.metrics.performanceScore = 85
        /\ ~AnyRuleFired => Res.metrics.readabilityScore = 75

\* the Python rule fired and the two other axes were drawn
C6_Witness ==
    /\ Returned
    /\ PythonLoopFired
    /\ Res.metrics.performanceScore = 85
    /\ Res.metrics.securityScore = 76
    /\ Res.metrics.readabilityScore = 83

---------------------------------------------------------------------------
(* C7 *)

\* the insights of the JavaScript/TypeScript rules whose condition holds of
\* the original source, in the order performance, security, readability
ExpectedJsInsights ==
    (IF FibonacciFired THEN <<FibonacciInsight>> ELSE << >>)
        \o (IF XssFired THEN <<XssInsight>> ELSE << >>)
        \o (IF ReadabilityFired THEN <<ReadabilityInsight>> ELSE << >>)

\* C7: for JavaScript/TypeScript, every requested type whose detector matches
\* the original source contributes exactly one insight, whether or not the
\* other types fired, and the insights stand in the order performance,
\* security, readability.
C7_IndependentTypes ==
    (Returned /\ IsJsTs /\ ExpectedJsInsights # << >>)
        => Res.insights = ExpectedJsInsights

\* all three types fired on one source
C7_Witness ==
    /\ Returned
    /\ request.language = "typescript"
    /\ FibonacciFired /\ XssFired /\ ReadabilityFired
    /\ Len(Res.insights) = 3

---------------------------------------------------------------------------
(* C8 *)

\* C8: whenever the result holds an insight with appliedTechnique "Dynamic
\* Programming", its optimizedCode holds the memoized function with a memo
\* second parameter.
C8_MemoizedWhenReported ==
    (Returned /\ "Dynamic Programming" \in Techniques(Res))
        => \E i \in 1..Len(Res.optimizedCode) :
              Res.optimizedCode[i] = MemoTemplate[1]

---------------------------------------------------------------------------
(* C9 *)

\* C9: for JavaScript/TypeScript source with one or more ".innerHTML ="
\* assignments and optimizationTypes = ["security"], every such assignment
\* of optimizedCode is replaced by ".textContent =", none remains, and the
\* result carries the "Input Sanitization" security insight.
C9_EveryInnerHtmlAssignmentFixed ==
    (/\ Returned
     /\ IsJsTs
     /\ request.optimizationTypes = {"security"}
     /\ \E i \in 1..Len(request.code) : InnerHtmlAssigned(request.code[i]))
        => /\ Len(Res.optimizedCode) = Len(request.code)
           /\ \A i \in 1..Len(request.code) :
                 InnerHtmlAssigned(request.code[i])
                    => Res.optimizedCode[i] = TextAssign
           /\ \A i \in 1..Len(Res.optimizedCode) :
                 ~InnerHtmlAssigned(Res.optimizedCode[i])
           /\ XssInsight \in InsightSet(Res)

\* two assignments, both replaced
C9_Witness ==
    /\ Returned
    /\ request.language = "javascript"
    /\ request.optimizationTypes = {"security"}
    /\ request.code = <<InnerAssign, InnerAssign>>
    /\ Res.optimizedCode = <<TextAssign, TextAssign>>

---------------------------------------------------------------------------
(* C10 *)

\* C10: every entry of metrics.optimizedLines is a 1-based line index of
\* optimizedCode: between 1 and the number of its lines.
C10_OptimizedLinesValid ==
    Returned =>
        \A k \in 1..Len(Res.metrics.optimizedLines) :
            Res.metrics.optimizedLines[k] \in 1..LineCount(Res.optimizedCode)

---------------------------------------------------------------------------
(* C11 *)

\* C11: when the call carries an applicableDomains filter, every domain name
\* of the result's domains list is a member of the filter.
C11_DomainsWithinFilter ==
    (Returned /\ request.applicableDomains # NoFilter)
        => \A i \in 1..Len(Res.domains) :
              Res.domains[i].name \in request.applicableDomains

---------------------------------------------------------------------------
(* C12 *)

\* what of a result the rules decide: the rewritten code, the insights, the
\* touched lines, the improvement and the scores the fired rules declared
RuleOutcome(r) ==
    [optimizedCode |-> r.optimizedCode,
     insights |-> r.insights,
     optimizedLines |-> r.metrics.optimizedLines,
     improvementPercentage |-> r.metrics.improvementPercentage,
     performanceDeclared |->
        IF \E i \in 1..Len(r.insights) : r.insights[i].type = "performance"
        THEN r.metrics.performanceScore ELSE 0,
     securityDeclared |->
        IF \E i \in 1..Len(r.insights) : r.insights[i].type = "security"
        THEN r.metrics.securityScore ELSE 0,
     readabilityDeclared |->
        IF \E i \in 1..Len(r.insights) : r.insights[i].type = "readability"
        THEN r.metrics.readabilityScore ELSE 0]

\* C12: applicableDomains never influences scoring or rewriting: a call that
\* differs from the one made only in applicableDomains (absent or supplied)
\* fires the same rules and returns the same optimizedCode, insights,
\* optimizedLines, improvementPercentage and rule-declared scores.
C12_FilterDoesNotInfluence ==
    Returned =>
        \A filter \in DomainFilters \ {request.applicableDomains} :
            \* the placeholders are no part of the outcome: one draw will do
            LET u == CHOOSE v \in MathRandom : TRUE
            IN  RuleOutcome(analyzeCode(request.code, request.filename,
                                        request.language,
                                        request.optimizationTypes,
                                        filter, <<u, u, u>>))
                    = RuleOutcome(Res)

\* the security rule fired under a filter that does not name its domain
C12_Witness ==
    /\ Returned
    /\ request.applicableDomains = {"Mathematics"}
    /\ XssFired /\ FibonacciFired
    /\ Res.metrics.securityScore = 92
    /\ Len(Res.domains) = 2

---------------------------------------------------------------------------
(* C13 *)

\* the technique and the algorithm match: one contains the other, letter
\* case apart (of the techniques and algorithms of analyzeCode no two
\* different ones contain each other)
TechniqueMatches(technique, algorithm) == technique = algorithm

\* C13: every entry of the domains list belongs to a fired rule whose
\* declared technique (the insight's appliedTechnique) matches one of the
\* algorithms the entry lists.
C13_DomainsListTheTechnique ==
    Returned =>
        \A i \in 1..Len(Res.domains) :
            \E t \in Techniques(Res) :
                \E k \in 1..Len(Res.domains[i].algorithms) :
                    TechniqueMatches(t, Res.domains[i].algorithms[k])

---------------------------------------------------------------------------
(* C14 *)

\* C14: applyMemoization is idempotent: applied to its own output it returns
\* that output unchanged; and the performance detector does not match a
\* source on which the rewrite has taken effect.
C14_MemoizationIdempotent ==
    (Returned /\ FibonacciFired) =>
        LET once == applyMemoization(request.code)
        IN  /\ applyMemoization(once) = once
            /\ once # request.code
                  => ~FibonacciDetected(once, {"performance"})

---------------------------------------------------------------------------
(* C16 *)

\* C16: for a language other than javascript, typescript and python no
\* pattern rule fires, whatever the source and the requested types: the
\* result holds the fallback insight alone, no optimizedLines and no domains.
C16_UnknownLanguageFallsBack ==
    (Returned /\ request.language \notin {"javascript", "typescript", "python"})
        => /\ Res.insights = <<FallbackInsight>>
           /\ Res.metrics.optimizedLines = << >>
           /\ Res.domains = << >>

\* a source on which, were it Python, the loop rule would fire
C16_Witness ==
    /\ Returned
    /\ request.language = "ruby"
    /\ request.optimizationTypes = OptimizationTypes
    /\ PythonLoopDetected(request.code, request.optimizationTypes)
    /\ Res.insights = <<FallbackInsight>>

---------------------------------------------------------------------------
(* C15 *)

\* C15: analyzing JavaScript source that holds a doubly-nested for loop whose
\* inner body has no j+1 or j-1, with "performance" requested, yields code
\* in which the nested loops are replaced by a single loop whose bound is
\* the product of the two bounds.
C15_NestedLoopFlattened ==
    (/\ Returned
     /\ request.language = "javascript"
     /\ "performance" \in request.optimizationTypes
     /\ \E i \in 1..Len(request.code) : request.code[i] = NestedLoop)
        => /\ \E i \in 1..Len(Res.optimizedCode) :
                 Res.optimizedCode[i] = FlattenedHead
           /\ \A i \in 1..Len(Res.optimizedCode) :
                 Res.optimizedCode[i] # NestedLoop

---------------------------------------------------------------------------
(* C17 *)

\* what of a result depends on no draw: all of it but the placeholder
\* scores of the axes no rule has set
Determined(r) ==
    [originalCode |-> r.originalCode,
     language |-> r.language,
     domains |-> r.domains,
     outcome |-> RuleOutcome(r)]

---------------------------------------------------------------------------
(* C18 *)

GeoReturned == geo.pc = "done"

\* the OptimizationResult the call returned
GeoRes == geo.result[1]

GeoJsTs == geo.language \in {"javascript", "typescript"}

---------------------------------------------------------------------------
(* C19 *)

\* the index pairs (i, j), 0 <= i < a, 0 <= j < b, in lexicographic order
RECURSIVE LexPairs(_, _, _)
LexPairs(a, b, n) ==
    IF n = 0 THEN << >>
    ELSE Append(LexPairs(a, b, n - 1), <<(n - 1) \div b, (n - 1) % b>>)

IsPrefix(p, q) == Len(p) <= Len(q) /\ p = SubSeq(q, 1, Len(p))

LoopsFinished ==
    /\ loop.pc = "running"
    /\ loop.idx >= loop.outerLimit * loop.innerLimit
    /\ ~(loop.i < loop.outerLimit /\ loop.j < loop.innerLimit)

---------------------------------------------------------------------------
(* C20 *)

\* the number of lines of the code that are the line
Occurrences(code, line) == Cardinality({i \in 1..Len(code) : code[i] = line})

NestedLoopLines == {NestedLoop, NestedLoopAdjacent, NestedLoopOther}

---------------------------------------------------------------------------
(* C25 *)

\* C25 as claimed: every insight returned by analyzeCode has a type that is
\* one of the requested optimizationTypes.
C25_InsightTypesRequested ==
    Returned =>
        \A i \in 1..Len(Res.insights) :
            Res.insights[i].type \in request.optimizationTypes

\* C25 as amended: every insight of a pattern rule has a type that is one of
\* the requested optimizationTypes; the one insight of another type is the
\* fallback's "readability" insight, which stands alone in the result and is
\* reported whether or not readability was requested.
C25_RuleInsightTypesRequested ==
    Returned =>
        \A i \in 1..Len(Res.insights) :
            \/ Res.insights[i].type \in request.optimizationTypes
            \/ /\ Res.insights[i] = FallbackInsight
               /\ Len(Res.insights) = 1

\* two rules fired for the two requested types, readability matching too
C25_Witness ==
    /\ Returned
    /\ request.optimizationTypes = {"performance", "security"}
    /\ MatchesMixedCase(request.code)
    /\ Len(Res.insights) = 2
    /\ Res.insights[1].type = "performance"
    /\ Res.insights[2].type = "security"

---------------------------------------------------------------------------
(* C26 *)

ImprovementValues == {95, 25, 30, 40, 15}

\* C26: improvementPercentage is the declared improvement of the last fired
\* rule in the order performance (95), security (25), readability (30); it is
\* neither the greatest nor a combination of the fired rules' values, and it
\* is always one of 95, 25, 30, 40, 15.
C26_ImprovementOfLastFiredRule ==
    Returned =>
        /\ Res.metrics.improvementPercentage \in ImprovementValues
        /\ IsJsTs /\ Len(Res.insights) >= 1 =>
              LET last == Res.insights[Len(Res.insights)]
              IN  Res.metrics.improvementPercentage =
                      CASE last = FibonacciInsight -> 95
                        [] last = XssInsight -> 25
                        [] last = ReadabilityInsight -> 30
                        [] last = FallbackInsight -> 15
        /\ \A i \in 1..(Len(Res.insights) - 1) :
              \/ Res.insights[i].type = "performance"
                    /\ Res.insights[i + 1].type # "performance"
              \/ Res.insights[i].type = "security"
                    /\ Res.insights[i + 1].type = "readability"

\* performance and security fired: 25, though 95 is the greater
C26_Witness ==
    /\ Returned
    /\ FibonacciFired
    /\ XssFired
    /\ ~ReadabilityFired
    /\ Res.metrics.improvementPercentage = 25

---------------------------------------------------------------------------
(* C21 *)

RoutesRunning == srv.pc = "routes"

\* the body fails validation: code, filename or language empty or missing,
\* or an optimization type outside the three
FailsValidation(body) ==
    \/ body.missing # {}
    \/ body.code = << >>
    \/ body.filename = ""
    \/ body.language = ""
    \/ \E t \in body.optimizationTypes :
          t \notin {"performance", "security", "readability"}

\* the handlers that have run analyzeCode
Analysed == {h \in 1..NumRequests : Handler(h).result # << >>}

\* C21: a POST /api/analyze request whose body fails validation is answered
\* 400 and leaves the stored state as it was: analyzeCode is not run for it
\* and no code sample, optimization or analysis result is created for it.
C21_InvalidBodyRefused ==
    RoutesRunning =>
        /\ \A h \in 1..NumRequests :
              (FailsValidation(Handler(h).body) /\ Handler(h).pc # "received")
                 => /\ Handler(h).pc = "done"
                    /\ Handler(h).status = 400
                    /\ Handler(h).result = << >>
                    /\ Handler(h).sampleId = 0
                    /\ Handler(h).created = << >>
                    /\ Handler(h).resultId = 0
        /\ srv.analyzeCalls =
              Cardinality({h \in 1..NumRequests :
                              /\ ~FailsValidation(Handler(h).body)
                              /\ Handler(h).pc # "received"})
        /\ \A i \in 1..Len(srv.codeSamples) :
              \E h \in Analysed :
                 /\ ~FailsValidation(Handler(h).body)
                 /\ srv.codeSamples[i].content = Handler(h).body.code
                 /\ srv.codeSamples[i].filename = Handler(h).body.filename
        /\ \A i \in 1..Len(srv.optimizations) :
              \E h \in Analysed :
                 /\ ~FailsValidation(Handler(h).body)
                 /\ \E k \in 1..Len(Handler(h).created) :
                       Handler(h).created[k] = srv.optimizations[i].id
        /\ \A id \in DOMAIN srv.analysisResults :
              \E h \in Analysed :
                 /\ ~FailsValidation(Handler(h).body)
                 /\ Handler(h).resultId = id

\* a body without code was answered 400 while a valid request was stored
C21_Witness ==
    /\ RoutesRunning
    /\ Handler(1).body.code = << >>
    /\ Handler(1).status = 400
    /\ Handler(2).status = 200
    /\ Len(srv.codeSamples) = 1
    /\ DOMAIN srv.analysisResults = {1}

---------------------------------------------------------------------------
(* C22 *)

\* C22: POST /api/analyze never creates a duplicate code sample: after any
\* number of requests with the same filename and code, handlers interleaved
\* at their awaits included, one code sample with that filename and content
\* exists and every optimization these requests created references its id.
C22_NoDuplicateCodeSample ==
    RoutesRunning =>
        /\ \A i, j \in 1..Len(srv.codeSamples) :
              (/\ srv.codeSamples[i].filename = srv.codeSamples[j].filename
               /\ srv.codeSamples[i].content = srv.codeSamples[j].content)
                 => i = j
        /\ \A g, h \in 1..NumRequests :
              (/\ Handler(g).status = 200
               /\ Handler(h).status = 200
               /\ Handler(g).body.filename = Handler(h).body.filename
               /\ Handler(g).body.code = Handler(h).body.code)
                 => Handler(g).sampleId = Handler(h).sampleId

---------------------------------------------------------------------------
(* C23 *)

\* C23: saveAnalysisResult allocates the ids 1, 2, 3, ... in call order in
\* DatabaseStorage and in MemStorage: no id is returned twice, no stored
\* result is overwritten or removed, and getAnalysisResult(id) returns the
\* result saved under id, and undefined for an id not yet allocated.
C23_ResultIdsInCallOrder ==
    srv.pc = "results" =>
        /\ srv.returned = [k \in 1..Len(srv.saved) |-> k]
        /\ DOMAIN srv.analysisResults = 1..Len(srv.saved)
        /\ \A k \in 1..Len(srv.saved) : srv.analysisResults[k] = srv.saved[k]
        /\ \A i \in 1..Len(srv.got) :
              srv.got[i].value =
                  IF srv.got[i].id \in 1..srv.got[i].allocated
                  THEN srv.saved[srv.got[i].id]
                  ELSE "undefined"

\* three results saved, and the third id asked for before it was allocated
C23_Witness ==
    /\ srv.pc = "results"
    /\ srv.storage = "database"
    /\ srv.returned = <<1, 2, 3>>
    /\ srv.saved = <<"result A", "result B", "result A">>
    /\ srv.got = <<[id |-> 3, allocated |-> 2, value |-> "undefined"]>>

---------------------------------------------------------------------------
(* C24 *)

\* the stored optimization with the id
OptimizationById(id) ==
    CHOOSE o \in {srv.optimizations[i] : i \in 1..Len(srv.optimizations)} :
        o.id = id

\* C24: a successful POST /api/analyze has created one optimization per
\* insight of its analysis result, each with the insight's type, the one
\* sampleId, optimizedContent equal to the result's optimizedCode and the
\* result's score on the axis the insight's type names, and has saved the
\* analysis result once, answering with its resultId.
C24_OneOptimizationPerInsight ==
    RoutesRunning =>
        /\ \A h \in 1..NumRequests :
              Handler(h).status = 200 =>
                 LET r == Handler(h).result[1]
                 IN  /\ Len(Handler(h).created) = Len(r.insights)
                     /\ \A k \in 1..Len(r.insights) :
                           LET o == OptimizationById(Handler(h).created[k])
                           IN  /\ o.type = r.insights[k].type
                               /\ o.sampleId = Handler(h).sampleId
                               /\ o.optimizedContent = r.optimizedCode
                               /\ o.improvements.score =
                                     CASE o.type = "performance" ->
                                             r.metrics.performanceScore
                                       [] o.type = "security" ->
                                             r.metrics.securityScore
                                       [] o.type = "readability" ->
                                             r.metrics.readabilityScore
                     /\ \E i \in 1..Len(srv.codeSamples) :
                           /\ srv.codeSamples[i].id = Handler(h).sampleId
                           /\ srv.codeSamples[i].content = Handler(h).body.code
                           /\ srv.codeSamples[i].filename
                                 = Handler(h).body.filename
                     /\ Handler(h).resultId \in DOMAIN srv.analysisResults
                     /\ srv.analysisResults[Handler(h).resultId] = r
                     /\ \A g \in 1..NumRequests :
                           (g # h /\ Handler(g).status = 200)
                              => Handler(g).resultId # Handler(h).resultId
        /\ Cardinality(DOMAIN srv.analysisResults)
              = Cardinality({h \in 1..NumRequests : Handler(h).status = 200})
        /\ \A g, h \in 1..NumRequests :
              \A k \in 1..Len(Handler(g).created) :
                 \A l \in 1..Len(Handler(h).created) :
                    Handler(g).created[k] = Handler(h).created[l]
                       => (g = h /\ k = l)

\* a request answered 200 with a performance and a security insight
C24_Witness ==
    /\ RoutesRunning
    /\ Handler(1).status = 200
    /\ Len(Handler(1).created) = 2
    /\ OptimizationById(Handler(1).created[1]).type = "performance"
    /\ OptimizationById(Handler(1).created[2]).type = "security"
    /\ Handler(2).pc = "createOptimization"

---------------------------------------------------------------------------
(* C27 *)

Answered == srv.pc = "answered"

\* the ChatResponse processChat returned
Reply == srv.response[1]

Sourced(r) == {r.sourcedKnowledge[i] : i \in 1..Len(r.sourcedKnowledge)}

\* C27: every message holding one of the self-improvement triggers ("improve
\* yourself", "self-improve", "update your code", "analyze yourself") and no
\* research or complexity keyword is answered by the self-improvement branch:
\* sourcedKnowledge contains "Self-Analysis".
C27_SelfImprovementTriggersAnswered ==
    (/\ Answered
     /\ srv.message # NotAString
     /\ \E t \in {"improve yourself", "self-improve", "update your code",
                  "analyze yourself"} : t \in KeywordsIn(srv.message)
     /\ \A k \in {"research", "learn online", "find information", "latest",
                  "p vs np", "complexity", "geometric", "cohomology"} :
           k \notin KeywordsIn(srv.message))
        => "Self-Analysis" \in Sourced(Reply)

---------------------------------------------------------------------------
(* C28 *)

\* C28: processChat always returns a response with a non-empty message, in
\* every branch and for every state of the storage; when a step throws it
\* returns the fixed error message with an empty sourcedKnowledge.
C28_NonEmptyMessage ==
    Answered =>
        /\ Reply.message # << >>
        /\ \A i \in 1..Len(Reply.message) : Reply.message[i] # ""
        /\ srv.message = NotAString =>
              /\ Reply.message = <<"I encountered an error while processing your request. Please try again.">>
              /\ Reply.sourcedKnowledge = << >>

---------------------------------------------------------------------------
(* C29 *)

---------------------------------------------------------------------------
(* C30 *)

PaperRunning == srv.pc = "paper"

\* the knowledge extraction has begun
ExtractionBegun ==
    \/ srv.at \in {"getDomains", "createKnowledgeExtraction"}
    \/ srv.failedAt \in {"getDomains", "createKnowledgeExtraction"}
    \/ srv.extractions # << >>

\* C30: in POST /api/analyze-paper the paper is stored before the knowledge
\* extraction starts, and a failure of the knowledge extraction does not fail
\* the request: the response is the analysis result with the stored paper's
\* paperId, the paper and the extractions created before the failure stay
\* stored, and 500 is answered only when the analysis or the storing of the
\* paper fails.
C30_ExtractionFailureTolerated ==
    PaperRunning =>
        /\ ExtractionBegun =>
              /\ srv.paperId # 0
              /\ \E i \in 1..Len(srv.papers) : srv.papers[i].id = srv.paperId
        /\ (srv.at = "done"
                /\ srv.failedAt \in {"getDomains", "createKnowledgeExtraction"})
              => /\ srv.status = 200
                 /\ srv.response = <<[paperId |-> srv.paperId]>>
                 /\ \E i \in 1..Len(srv.papers) :
                       srv.papers[i].id = srv.paperId
                 /\ LET all == ExtractionsOver(DomainList(srv.domains),
                                               srv.body)
                    IN  /\ Len(srv.extractions) <= Len(all)
                        /\ \A i \in 1..Len(srv.extractions) :
                              /\ srv.extractions[i].domain = all[i].domain
                              /\ srv.extractions[i].technique
                                    = all[i].technique
        /\ srv.status = 500
              => /\ srv.failedAt \in {"analyzeResearchPaper",
                                      "createResearchPaper"}
                 /\ srv.extractions = << >>
        /\ \A i \in 1..Len(srv.extractions) :
              srv.extractions[i].paperId = srv.paperId

\* the second insert of an extraction failed: 200, one extraction stored
C30_Witness ==
    /\ PaperRunning
    /\ srv.at = "done"
    /\ srv.failedAt = "createKnowledgeExtraction"
    /\ Len(srv.extractions) = 1
    /\ Len(srv.todo) >= 1
    /\ srv.status = 200

=============================================================================
